---- MODULE Spec2Model ----
(***************************************************************************)
(* Othello rule engine (OthelloLogic), opposing agent (OthelloAI) and the  *)
(* session loop (OthelloGame.run) of src/game-engine.py.                   *)
(***************************************************************************)
EXTENDS Integers, Sequences, FiniteSets, TLC

VARIABLES
  board,           \* logic.board
  current_player,  \* logic.current_player
  game_over,       \* OthelloGame.game_over
  ai_enabled,      \* OthelloGame.ai_enabled
  difficulty,      \* OthelloGame.difficulty
  ai,              \* the OthelloAI object in use
  last             \* the last call: its name, arguments, result and the state before it

vars == <<board, current_player, game_over, ai_enabled, difficulty, ai, last>>

(***************************************************************************)
(* Constants of the program.                                               *)
(***************************************************************************)
BOARD_SIZE == 8

BLACK == "B"
WHITE == "W"
EMPTY == "None"

Players == {BLACK, WHITE}

DIRECTIONS ==
  << <<-1, 0>>, <<1, 0>>, <<0, -1>>, <<0, 1>>,
     <<-1, -1>>, <<-1, 1>>, <<1, -1>>, <<1, 1>> >>

WEIGHTS ==
  << <<100, -20, 10, 5, 5, 10, -20, 100>>,
     <<-20, -50, -2, -2, -2, -2, -50, -20>>,
     <<10, -2, 5, 1, 1, 5, -2, 10>>,
     <<5, -2, 1, 0, 0, 1, -2, 5>>,
     <<5, -2, 1, 0, 0, 1, -2, 5>>,
     <<10, -2, 5, 1, 1, 5, -2, 10>>,
     <<-20, -50, -2, -2, -2, -2, -50, -20>>,
     <<100, -20, 10, 5, 5, 10, -20, 100>> >>

(* range(BOARD_SIZE) *)
Range == 0 .. (BOARD_SIZE - 1)

(***************************************************************************)
(* OthelloLogic: the board is a list of rows, each a list of cells.        *)
(***************************************************************************)
(* Faulty: one row too many.                                               *)
EmptyBoard_extra_row == [r \in 0 .. BOARD_SIZE |-> [c \in Range |-> EMPTY]]

EmptyBoard == [r \in Range |-> [c \in Range |-> EMPTY]]

(* Faulty: the colours are placed by rows instead of diagonals.            *)
initialize_board_rows(b) ==
  LET mid == BOARD_SIZE \div 2
  IN  [b EXCEPT ![mid - 1][mid - 1] = WHITE,
                ![mid - 1][mid] = WHITE,
                ![mid][mid - 1] = BLACK,
                ![mid][mid] = BLACK]

initialize_board(b) ==
  LET mid == BOARD_SIZE \div 2
  IN  [b EXCEPT ![mid - 1][mid - 1] = WHITE,
                ![mid - 1][mid] = BLACK,
                ![mid][mid - 1] = BLACK,
                ![mid][mid] = WHITE]

InitialBoard == initialize_board(EmptyBoard)

get_opponent(player) == IF player = BLACK THEN WHITE ELSE BLACK

is_valid_bounds(r, c) == 0 <= r /\ r < BOARD_SIZE /\ 0 <= c /\ c < BOARD_SIZE

(* The while loop of get_flips for one direction: collects opponent cells  *)
(* and returns them with the cell the walk stopped on.                     *)
RECURSIVE WalkRun(_, _, _, _, _, _, _)
WalkRun(b, curr_r, curr_c, dr, dc, opponent, potential_flips) ==
  IF is_valid_bounds(curr_r, curr_c) /\ b[curr_r][curr_c] = opponent
  THEN WalkRun(b, curr_r + dr, curr_c + dc, dr, dc, opponent,
               Append(potential_flips, <<curr_r, curr_c>>))
  ELSE [curr_r |-> curr_r, curr_c |-> curr_c, potential_flips |-> potential_flips]

(* Faulty: the run is kept without checking that it ends on a piece of the *)
(* player.                                                                 *)
DirectionFlips_unanchored(b, r, c, dr, dc, player) ==
  WalkRun(b, r + dr, c + dc, dr, dc, get_opponent(player), <<>>).potential_flips

(* One iteration of "for dr, dc in DIRECTIONS": the cells this direction   *)
(* adds to flips.                                                          *)
DirectionFlips(b, r, c, dr, dc, player) ==
  LET Extend(w) ==
        IF is_valid_bounds(w.curr_r, w.curr_c) /\ b[w.curr_r][w.curr_c] = player
        THEN w.potential_flips
        ELSE <<>>
  IN  Extend(WalkRun(b, r + dr, c + dc, dr, dc, get_opponent(player), <<>>))

(* "for dr, dc in DIRECTIONS": the flips of the eight directions, in the  *)
(* order of DIRECTIONS.                                                    *)
FlipsFrom(b, r, c, player) ==
  LET Extended(d) == d[1] \o d[2] \o d[3] \o d[4] \o d[5] \o d[6] \o d[7] \o d[8]
  IN  Extended([i \in 1 .. 8 |->
                  DirectionFlips(b, r, c, DIRECTIONS[i][1], DIRECTIONS[i][2], player)])

get_flips(b, r, c, player) ==
  IF ~is_valid_bounds(r, c) \/ b[r][c] # EMPTY
  THEN <<>>
  ELSE FlipsFrom(b, r, c, player)

is_valid_move(b, r, c, player) == get_flips(b, r, c, player) # <<>>

(* The cells in the order of "for r in range(BOARD_SIZE): for c in          *)
(* range(BOARD_SIZE)".                                                     *)
RowMajor ==
  [k \in 1 .. BOARD_SIZE * BOARD_SIZE |->
     <<(k - 1) \div BOARD_SIZE, (k - 1) % BOARD_SIZE>>]

(* Faulty: the two loops nested the other way round, columns outermost.    *)
get_valid_moves_column_major(b, player) ==
  SelectSeq([k \in 1 .. BOARD_SIZE * BOARD_SIZE |->
               <<(k - 1) % BOARD_SIZE, (k - 1) \div BOARD_SIZE>>],
            LAMBDA rc : is_valid_move(b, rc[1], rc[2], player))

(* The scan appends each cell that passes is_valid_move, in scan order.    *)
get_valid_moves(b, player) ==
  SelectSeq(RowMajor, LAMBDA rc : is_valid_move(b, rc[1], rc[2], player))

RECURSIVE SetCells(_, _, _, _)
SetCells(b, cells, player, i) ==
  IF i > Len(cells) THEN b
  ELSE SetCells([b EXCEPT ![cells[i][1]][cells[i][2]] = player], cells, player, i + 1)

(* Faulty: the piece is placed before the flips are looked at.             *)
make_move_place_first(b, r, c, player) ==
  LET placed == IF is_valid_bounds(r, c) THEN [b EXCEPT ![r][c] = player] ELSE b
      Place(flips) ==
        IF flips = <<>>
        THEN [ok |-> FALSE, board |-> placed]
        ELSE [ok |-> TRUE, board |-> SetCells(placed, flips, player, 1)]
  IN  Place(get_flips(b, r, c, player))

(* Faulty: the flips are made but the piece itself is not placed.          *)
make_move_flips_only(b, r, c, player) ==
  LET Place(flips) ==
        IF flips = <<>>
        THEN [ok |-> FALSE, board |-> b]
        ELSE [ok |-> TRUE, board |-> SetCells(b, flips, player, 1)]
  IN  Place(get_flips(b, r, c, player))

(* Faulty: the piece and the flips are written to a copy of the board.     *)
make_move_on_copy(b, r, c, player) ==
  LET Place(flips) ==
        IF flips = <<>>
        THEN [ok |-> FALSE, board |-> b]
        ELSE [ok |-> TRUE, board |-> b]
  IN  Place(get_flips(b, r, c, player))

(* make_move on a board value: the returned flag and the board afterwards. *)
make_move(b, r, c, player) ==
  LET Place(flips) ==
        IF flips = <<>>
        THEN [ok |-> FALSE, board |-> b]
        ELSE [ok |-> TRUE,
              board |-> SetCells([b EXCEPT ![r][c] = player], flips, player, 1)]
  IN  Place(get_flips(b, r, c, player))

Count(b, v) == Cardinality({rc \in Range \X Range : b[rc[1]][rc[2]] = v})

get_score(b) == <<Count(b, BLACK), Count(b, WHITE)>>

(* Faulty: over as soon as one of the players cannot move.                 *)
is_game_over_either(b) ==
  LET Neither(black_moves, white_moves) == black_moves = <<>> \/ white_moves = <<>>
  IN  Neither(get_valid_moves(b, BLACK), get_valid_moves(b, WHITE))

is_game_over(b) ==
  LET Neither(black_moves, white_moves) == black_moves = <<>> /\ white_moves = <<>>
  IN  Neither(get_valid_moves(b, BLACK), get_valid_moves(b, WHITE))

(* Faulty: BLACK is also returned when the counts are equal.               *)
get_winner_black_on_tie(b) ==
  LET Winner(s) == IF s[1] >= s[2] THEN BLACK
                   ELSE IF s[2] > s[1] THEN WHITE
                   ELSE "TIE"
  IN  Winner(get_score(b))

get_winner(b) ==
  LET Winner(s) == IF s[1] > s[2] THEN BLACK
                   ELSE IF s[2] > s[1] THEN WHITE
                   ELSE "TIE"
  IN  Winner(get_score(b))

(***************************************************************************)
(* Object store.  A logic object is a record [board, current_player]; the  *)
(* store maps references 1..Len(h) to objects, so that two names bound to  *)
(* one reference see each other's mutations and a deep copy does not.      *)
(***************************************************************************)
OthelloLogic == [board |-> InitialBoard, current_player |-> BLACK]

(* Faulty: no copy is made, the new name refers to the same object.        *)
deepcopy_alias(h, ref) == [heap |-> h, ref |-> ref]

(* copy.deepcopy(logic): a fresh object equal to the one referred to.      *)
deepcopy(h, ref) == [heap |-> Append(h, h[ref]), ref |-> Len(h) + 1]

(* logic.make_move(r, c, player) on the object behind ref.                 *)
obj_make_move(h, ref, r, c, player) ==
  LET Store(m) == [ok |-> m.ok, heap |-> [h EXCEPT ![ref].board = m.board]]
  IN  Store(make_move(h[ref].board, r, c, player))

(* logic.switch_turn() on the object behind ref.                           *)
switch_turn(h, ref) ==
  [h EXCEPT ![ref].current_player = get_opponent(h[ref].current_player)]

(***************************************************************************)
(* OthelloAI.                                                              *)
(***************************************************************************)
(* float("inf"): larger than the absolute value of any evaluate() result   *)
(* (the absolute weights sum to 1128), so every comparison against it      *)
(* agrees with the comparison against the float.                           *)
INF == 1000000

NoMove == <<>>

OthelloAI(player, diff) ==
  [player |-> player, difficulty |-> diff, depth |-> IF diff = 3 THEN 3 ELSE 1]

Max(a, b) == IF a >= b THEN a ELSE b
Min(a, b) == IF a <= b THEN a ELSE b

(* Faulty: the opponent's cells are not subtracted.                        *)
CellScore_own_only(self, b, r, c) ==
  IF b[r][c] = self.player THEN WEIGHTS[r + 1][c + 1] ELSE 0

(* The amount one cell adds to score in the loop body of evaluate.         *)
CellScore(self, b, r, c) ==
  IF b[r][c] = self.player THEN WEIGHTS[r + 1][c + 1]
  ELSE IF b[r][c] = get_opponent(self.player) THEN 0 - WEIGHTS[r + 1][c + 1]
  ELSE 0

(* "for c in range(BOARD_SIZE)" for one row r.                             *)
RowScore(self, b, r) ==
  LET Sum(s) == s[0] + s[1] + s[2] + s[3] + s[4] + s[5] + s[6] + s[7]
  IN  Sum([c \in Range |-> CellScore(self, b, r, c)])

(* "for r in range(BOARD_SIZE)": score starts at 0 and every cell adds its *)
(* amount.                                                                 *)
evaluate(self, b) ==
  LET Sum(s) == s[0] + s[1] + s[2] + s[3] + s[4] + s[5] + s[6] + s[7]
  IN  Sum([r \in Range |-> RowScore(self, b, r)])

RECURSIVE minimax(_, _, _, _, _, _, _)

(* The loops below run their iterations in order: Run(s, lo, hi) is the    *)
(* loop's variables after the iterations for moves lo .. hi, started with  *)
(* the variables s; it runs the first half of the range and then, unless   *)
(* the loop has broken, the second half.                                   *)

(* The body of "for r, c in valid_moves" in the maximizing branch, for the *)
(* move rc: s holds max_eval, alpha and the store before the iteration,    *)
(* the result holds them after it, with broke set when the loop breaks.    *)
MaxBody(self, s, ref, depth, player, rc, beta) ==
  LET temp_logic == deepcopy(s.heap, ref)
      Update(eval) ==
        LET alpha == Max(s.alpha, eval.value)
        IN  [max_eval |-> Max(s.max_eval, eval.value), alpha |-> alpha,
             heap |-> eval.heap, broke |-> beta <= alpha]
  IN  Update(minimax(self,
                     obj_make_move(temp_logic.heap, temp_logic.ref, rc[1], rc[2], player).heap,
                     temp_logic.ref, depth - 1, FALSE, s.alpha, beta))

(* The maximizing loop.                                                    *)
MaxLoop(self, h, ref, depth, player, valid_moves, alpha, beta) ==
  LET RECURSIVE Run(_, _, _)
      Run(s, lo, hi) ==
        IF lo = hi
        THEN MaxBody(self, s, ref, depth, player, valid_moves[lo], beta)
        ELSE LET first == Run(s, lo, (lo + hi) \div 2)
             IN  IF first.broke THEN first ELSE Run(first, (lo + hi) \div 2 + 1, hi)
      Return(done) == [value |-> done.max_eval, heap |-> done.heap]
  IN  Return(Run([max_eval |-> 0 - INF, alpha |-> alpha, heap |-> h, broke |-> FALSE],
                 1, Len(valid_moves)))

(* Faulty: the cutoff test of the minimizing branch the wrong way round.   *)
MinBody_cut_inverted(self, s, ref, depth, player, rc, alpha) ==
  LET temp_logic == deepcopy(s.heap, ref)
      Update(eval) ==
        LET beta == Min(s.beta, eval.value)
        IN  [min_eval |-> Min(s.min_eval, eval.value), beta |-> beta,
             heap |-> eval.heap, broke |-> beta >= alpha]
  IN  Update(minimax(self,
                     obj_make_move(temp_logic.heap, temp_logic.ref, rc[1], rc[2], player).heap,
                     temp_logic.ref, depth - 1, TRUE, alpha, s.beta))

(* The body of "for r, c in valid_moves" in the minimizing branch.         *)
MinBody(self, s, ref, depth, player, rc, alpha) ==
  LET temp_logic == deepcopy(s.heap, ref)
      Update(eval) ==
        LET beta == Min(s.beta, eval.value)
        IN  [min_eval |-> Min(s.min_eval, eval.value), beta |-> beta,
             heap |-> eval.heap, broke |-> beta <= alpha]
  IN  Update(minimax(self,
                     obj_make_move(temp_logic.heap, temp_logic.ref, rc[1], rc[2], player).heap,
                     temp_logic.ref, depth - 1, TRUE, alpha, s.beta))

(* The minimizing loop.                                                    *)
MinLoop(self, h, ref, depth, player, valid_moves, alpha, beta) ==
  LET RECURSIVE Run(_, _, _)
      Run(s, lo, hi) ==
        IF lo = hi
        THEN MinBody(self, s, ref, depth, player, valid_moves[lo], alpha)
        ELSE LET first == Run(s, lo, (lo + hi) \div 2)
             IN  IF first.broke THEN first ELSE Run(first, (lo + hi) \div 2 + 1, hi)
      Return(done) == [value |-> done.min_eval, heap |-> done.heap]
  IN  Return(Run([min_eval |-> INF, beta |-> beta, heap |-> h, broke |-> FALSE],
                 1, Len(valid_moves)))

(* Faulty: a pass inside the search does not use up a ply.                 *)
minimax_pass_keeps_depth(self, h, ref, depth, is_maximizing, alpha, beta) ==
  IF depth = 0 \/ is_game_over(h[ref].board)
  THEN [value |-> evaluate(self, h[ref].board), heap |-> h]
  ELSE LET player == IF is_maximizing THEN self.player ELSE get_opponent(self.player)
           Search(valid_moves) ==
             IF valid_moves = <<>>
             THEN minimax(self, h, ref, depth, ~is_maximizing, alpha, beta)
             ELSE IF is_maximizing
                  THEN MaxLoop(self, h, ref, depth, player, valid_moves, alpha, beta)
                  ELSE MinLoop(self, h, ref, depth, player, valid_moves, alpha, beta)
       IN  Search(get_valid_moves(h[ref].board, player))

(* Returns the value and the store after the call.  The loops are entered  *)
(* with a list of moves that is not empty.                                 *)
minimax(self, h, ref, depth, is_maximizing, alpha, beta) ==
  IF depth = 0 \/ is_game_over(h[ref].board)
  THEN [value |-> evaluate(self, h[ref].board), heap |-> h]
  ELSE LET player == IF is_maximizing THEN self.player ELSE get_opponent(self.player)
           Search(valid_moves) ==
             IF valid_moves = <<>>
             THEN minimax(self, h, ref, depth - 1, ~is_maximizing, alpha, beta)
             ELSE IF is_maximizing
                  THEN MaxLoop(self, h, ref, depth, player, valid_moves, alpha, beta)
                  ELSE MinLoop(self, h, ref, depth, player, valid_moves, alpha, beta)
       IN  Search(get_valid_moves(h[ref].board, player))

(* Faulty: a move with an equal score replaces the best one.               *)
RootBody_last_max(self, s, ref, rc) ==
  LET temp_logic == deepcopy(s.heap, ref)
      depth == self.depth - 1
      alpha == 0 - INF
      beta == INF
      Update(moved, score) ==
        [best_score |-> IF score.value >= s.best_score THEN score.value ELSE s.best_score,
         best_move |-> IF score.value >= s.best_score THEN rc ELSE s.best_move,
         heap |-> score.heap,
         broke |-> FALSE,
         calls |-> Append(s.calls,
                          [move |-> rc, board |-> moved[temp_logic.ref].board,
                           depth |-> depth, is_maximizing |-> FALSE,
                           alpha |-> alpha, beta |-> beta, score |-> score.value])]
      Search(moved) ==
        Update(moved, minimax(self, moved, temp_logic.ref, depth, FALSE, alpha, beta))
  IN  Search(obj_make_move(temp_logic.heap, temp_logic.ref, rc[1], rc[2], self.player).heap)

(* Faulty: the search of a root move starts with alpha at the best score   *)
(* found so far.                                                           *)
RootBody_tightened(self, s, ref, rc) ==
  LET temp_logic == deepcopy(s.heap, ref)
      depth == self.depth - 1
      alpha == s.best_score
      beta == INF
      Update(moved, score) ==
        [best_score |-> IF score.value > s.best_score THEN score.value ELSE s.best_score,
         best_move |-> IF score.value > s.best_score THEN rc ELSE s.best_move,
         heap |-> score.heap,
         broke |-> FALSE,
         calls |-> Append(s.calls,
                          [move |-> rc, board |-> moved[temp_logic.ref].board,
                           depth |-> depth, is_maximizing |-> FALSE,
                           alpha |-> alpha, beta |-> beta, score |-> score.value])]
      Search(moved) ==
        Update(moved, minimax(self, moved, temp_logic.ref, depth, FALSE, alpha, beta))
  IN  Search(obj_make_move(temp_logic.heap, temp_logic.ref, rc[1], rc[2], self.player).heap)

(* The body of the loop of minimax_root for the move rc; this loop has no  *)
(* break.  calls lists, for each root move so far, the arguments minimax   *)
(* was called with and the score it returned.                              *)
RootBody(self, s, ref, rc) ==
  LET temp_logic == deepcopy(s.heap, ref)
      depth == self.depth - 1
      alpha == 0 - INF
      beta == INF
      Update(moved, score) ==
        [best_score |-> IF score.value > s.best_score THEN score.value ELSE s.best_score,
         best_move |-> IF score.value > s.best_score THEN rc ELSE s.best_move,
         heap |-> score.heap,
         broke |-> FALSE,
         calls |-> Append(s.calls,
                          [move |-> rc, board |-> moved[temp_logic.ref].board,
                           depth |-> depth, is_maximizing |-> FALSE,
                           alpha |-> alpha, beta |-> beta, score |-> score.value])]
      Search(moved) ==
        Update(moved, minimax(self, moved, temp_logic.ref, depth, FALSE, alpha, beta))
  IN  Search(obj_make_move(temp_logic.heap, temp_logic.ref, rc[1], rc[2], self.player).heap)

(* Returns the move and the store after the call; moves is not empty.      *)
minimax_root(self, h, ref, moves) ==
  LET RECURSIVE Run(_, _, _)
      Run(s, lo, hi) ==
        IF lo = hi
        THEN RootBody(self, s, ref, moves[lo])
        ELSE LET first == Run(s, lo, (lo + hi) \div 2)
             IN  IF first.broke THEN first ELSE Run(first, (lo + hi) \div 2 + 1, hi)
      Return(done) == [move |-> done.best_move, heap |-> done.heap, calls |-> done.calls]
  IN  Return(Run([best_score |-> 0 - INF, best_move |-> moves[1], heap |-> h,
                  broke |-> FALSE, calls |-> <<>>], 1, Len(moves)))

(* Faulty: the best move is stored as (c, r).                              *)
RECURSIVE GreedyLoop_transposed(_, _, _, _, _, _)
GreedyLoop_transposed(self, b, valid_moves, i, max_flipped, best_move) ==
  IF i > Len(valid_moves) THEN best_move
  ELSE LET flips == Len(get_flips(b, valid_moves[i][1], valid_moves[i][2], self.player))
       IN  IF flips > max_flipped
           THEN GreedyLoop_transposed(self, b, valid_moves, i + 1, flips,
                                      <<valid_moves[i][2], valid_moves[i][1]>>)
           ELSE GreedyLoop_transposed(self, b, valid_moves, i + 1, max_flipped, best_move)

(* Faulty: a move that flips as many pieces replaces the best one.         *)
RECURSIVE GreedyLoop_last_max(_, _, _, _, _, _)
GreedyLoop_last_max(self, b, valid_moves, i, max_flipped, best_move) ==
  IF i > Len(valid_moves) THEN best_move
  ELSE LET flips == Len(get_flips(b, valid_moves[i][1], valid_moves[i][2], self.player))
       IN  IF flips >= max_flipped
           THEN GreedyLoop_last_max(self, b, valid_moves, i + 1, flips, valid_moves[i])
           ELSE GreedyLoop_last_max(self, b, valid_moves, i + 1, max_flipped, best_move)

(* The greedy loop of get_best_move from index i on.                       *)
RECURSIVE GreedyLoop(_, _, _, _, _, _)
GreedyLoop(self, b, valid_moves, i, max_flipped, best_move) ==
  IF i > Len(valid_moves) THEN best_move
  ELSE LET flips == Len(get_flips(b, valid_moves[i][1], valid_moves[i][2], self.player))
       IN  IF flips > max_flipped
           THEN GreedyLoop(self, b, valid_moves, i + 1, flips, valid_moves[i])
           ELSE GreedyLoop(self, b, valid_moves, i + 1, max_flipped, best_move)

(* get_best_move(logic): the set of possible outcomes [move, heap]; the    *)
(* random tier has one outcome per legal move.                             *)
get_best_move(self, h, ref) ==
  LET Choose(valid_moves) ==
        IF valid_moves = <<>> THEN {[move |-> NoMove, heap |-> h]}
        ELSE IF self.difficulty = 1
             THEN {[move |-> valid_moves[i], heap |-> h] : i \in 1 .. Len(valid_moves)}
        ELSE IF self.difficulty = 2
             THEN {[move |-> GreedyLoop(self, h[ref].board, valid_moves, 1, -1,
                                        valid_moves[1]),
                    heap |-> h]}
        ELSE IF self.difficulty = 3
             THEN {minimax_root(self, h, ref, valid_moves)}
        ELSE {[move |-> NoMove, heap |-> h]}
  IN  Choose(get_valid_moves(h[ref].board, self.player))


(***************************************************************************)
(* Bounds of the exploration.                                              *)
(***************************************************************************)
(* Calls are tried with coordinates from -Margin to BOARD_SIZE-1+Margin.   *)
Margin == 1

(* Every successful move is followed from boards with fewer than MaxFree  *)
(* pieces placed; later boards are continued along the recorded games.     *)
MaxFree == 2

Coords == (0 - Margin) .. (BOARD_SIZE - 1 + Margin)

(* Recorded games: each a sequence of successful moves <<r, c, player>>    *)
(* from the initial board.  The first ends with WHITE wiped out after nine *)
(* moves; in the second BLACK has no move after the eighth move while      *)
(* WHITE has three; in the third BLACK has no move after the 14th move and *)
(* again after the 19th, while WHITE has.                                  *)
Games ==
  << << <<4, 5, "B">>, <<5, 3, "W">>, <<4, 2, "B">>, <<3, 5, "W">>, <<6, 4, "B">>,
        <<5, 5, "W">>, <<4, 6, "B">>, <<5, 4, "W">>, <<2, 4, "B">> >>,
     << <<2, 3, "B">>, <<2, 2, "W">>, <<4, 5, "B">>, <<1, 3, "W">>, <<0, 3, "B">>,
        <<0, 4, "W">>, <<1, 1, "B">>, <<0, 2, "W">> >>,
     << <<4, 5, "B">>, <<5, 5, "W">>, <<6, 5, "B">>, <<3, 5, "W">>, <<2, 2, "B">>,
        <<5, 3, "W">>, <<6, 3, "B">>, <<6, 6, "W">>, <<7, 7, "B">>, <<6, 2, "W">>,
        <<2, 5, "B">>, <<7, 3, "W">>, <<7, 1, "B">>, <<5, 1, "W">>, <<2, 6, "W">>,
        <<1, 7, "B">>, <<6, 1, "W">>, <<4, 1, "B">>, <<6, 0, "W">> >> >>

(* The boards of a game: the initial board, then the board after each of   *)
(* its moves.                                                              *)
RECURSIVE Replay(_, _)
Replay(game, boards) ==
  IF Len(boards) > Len(game) THEN boards
  ELSE Replay(game, Append(boards, make_move(boards[Len(boards)], game[Len(boards)][1],
                                             game[Len(boards)][2],
                                             game[Len(boards)][3]).board))

(* Positions[g][n + 1] is the board after the first n moves of game g.     *)
Positions == [g \in 1 .. Len(Games) |-> Replay(Games[g], <<InitialBoard>>)]

Pieces(b) == Count(b, BLACK) + Count(b, WHITE)

Placed(b) == Pieces(b) - Pieces(InitialBoard)

(* The move continues a recorded game from board b.                        *)
Recorded(b, r, c, player) ==
  \E g \in 1 .. Len(Games) :
    LET n == Placed(b)
    IN  /\ n < Len(Games[g])
        /\ Games[g][n + 1] = <<r, c, player>>
        /\ Positions[g][n + 1] = b

(* Two games played to the end: the first fills the board in 60 moves and *)
(* ends 32 to 32; the second ends after ten moves with BLACK wiped out.    *)
EndGames ==
  << << <<2, 3, "B">>, <<4, 2, "W">>, <<5, 5, "B">>, <<2, 4, "W">>, <<2, 5, "B">>,
        <<6, 6, "W">>, <<5, 2, "B">>, <<1, 5, "W">>, <<5, 4, "B">>, <<2, 2, "W">>,
        <<4, 1, "B">>, <<4, 5, "W">>, <<4, 6, "B">>, <<5, 6, "W">>, <<3, 6, "B">>,
        <<2, 6, "W">>, <<1, 4, "B">>, <<3, 5, "W">>, <<2, 1, "B">>, <<2, 0, "W">>,
        <<1, 7, "B">>, <<2, 7, "W">>, <<7, 7, "B">>, <<6, 4, "W">>, <<5, 3, "B">>,
        <<0, 5, "W">>, <<1, 1, "B">>, <<6, 1, "W">>, <<6, 3, "B">>, <<7, 3, "W">>,
        <<3, 1, "B">>, <<0, 7, "W">>, <<0, 4, "B">>, <<0, 2, "W">>, <<1, 2, "B">>,
        <<4, 0, "W">>, <<0, 0, "B">>, <<0, 1, "W">>, <<3, 0, "B">>, <<1, 3, "W">>,
        <<4, 7, "B">>, <<5, 1, "W">>, <<6, 5, "B">>, <<5, 7, "W">>, <<6, 7, "B">>,
        <<0, 3, "W">>, <<1, 0, "B">>, <<7, 6, "W">>, <<7, 5, "B">>, <<7, 4, "W">>,
        <<6, 0, "B">>, <<3, 2, "W">>, <<7, 2, "B">>, <<5, 0, "W">>, <<6, 2, "B">>,
        <<7, 0, "W">>, <<3, 7, "B">>, <<7, 1, "W">>, <<0, 6, "B">>, <<1, 6, "W">> >>,
     << <<2, 3, "B">>, <<2, 2, "W">>, <<2, 1, "B">>, <<2, 4, "W">>, <<4, 5, "B">>,
        <<2, 0, "W">>, <<3, 2, "B">>, <<5, 4, "W">>, <<3, 5, "B">>, <<3, 6, "W">> >> >>

(* EndPositions[g][n + 1] is the board after the first n moves of          *)
(* EndGames[g].                                                            *)
EndPositions == [g \in 1 .. Len(EndGames) |-> Replay(EndGames[g], <<InitialBoard>>)]

(* The move continues one of EndGames from board b.                        *)
RecordedEnd(b, r, c, player) ==
  \E g \in 1 .. Len(EndGames) :
    LET n == Placed(b)
    IN  /\ n < Len(EndGames[g])
        /\ EndGames[g][n + 1] = <<r, c, player>>
        /\ EndPositions[g][n + 1] = b

(* The successful moves the exploration follows from board b.              *)
Explored(b, r, c, player) ==
  Placed(b) < MaxFree \/ Recorded(b, r, c, player) \/ RecordedEnd(b, r, c, player)

NoAI == [player |-> "None", difficulty |-> 0, depth |-> 0]

(* A call: its name, arguments and result, the state it was made in,       *)
(* whether it repeats, right after it, a make_move that returned True, and *)
(* the number of make_move calls that returned True since the object was   *)
(* built, the number of passes since then and the value of moves at the    *)
(* latest of them (-1 before the first), and whether it is a click that    *)
(* comes right after a click that made a move.                             *)
Call(op, r, c, player, ok, move) ==
  [op |-> op, r |-> r, c |-> c, player |-> player, ok |-> ok, move |-> move,
   board |-> board, turn |-> current_player, over |-> game_over,
   again |-> /\ op = "make_move"
             /\ last.op = "make_move" /\ last.ok
             /\ last.r = r /\ last.c = c /\ last.player = player,
   moves |-> IF op = "play_again" THEN 0
             ELSE IF op \in {"make_move", "click", "ai_turn"} /\ ok THEN last.moves + 1
             ELSE last.moves,
   passes |-> IF op = "play_again" THEN 0
              ELSE IF op = "pass" THEN last.passes + 1
              ELSE last.passes,
   pass_moves |-> IF op = "play_again" THEN -1
                  ELSE IF op = "pass" THEN last.moves
                  ELSE last.pass_moves,
   queued |-> /\ op \in {"click", "click_ignored"}
              /\ last.op = "click" /\ last.ok]

NoCall ==
  [op |-> "init", r |-> 0, c |-> 0, player |-> BLACK, ok |-> FALSE, move |-> NoMove,
   board |-> OthelloLogic.board, turn |-> OthelloLogic.current_player, over |-> FALSE,
   again |-> FALSE, moves |-> 0, passes |-> 0, pass_moves |-> -1,
   queued |-> FALSE]

(* A call that changed nothing leaves the program as it was before the    *)
(* call, so whatever can follow it is already explored from the state      *)
(* before it: the operations are applied in states reached by construction,*)
(* by a call that changed the program's state or by a make_move that       *)
(* returned True.                                                          *)
Fresh ==
  \/ last.op = "init"
  \/ board # last.board
  \/ current_player # last.turn
  \/ game_over # last.over
  \/ (last.op = "make_move" /\ last.ok)

(***************************************************************************)
(* Spec: an OthelloLogic object driven through its methods.                *)
(***************************************************************************)
Init ==
  /\ board = OthelloLogic.board
  /\ current_player = OthelloLogic.current_player
  /\ game_over = FALSE
  /\ ai_enabled = FALSE
  /\ difficulty = 0
  /\ ai = NoAI
  /\ last = NoCall

(* logic.make_move(r, c, logic.current_player), the call the program      *)
(* makes.                                                                  *)
MakeMove(r, c) ==
  LET m == make_move(board, r, c, current_player)
  IN  /\ Fresh
      /\ m.ok => Explored(board, r, c, current_player)
      /\ board' = m.board
      /\ last' = Call("make_move", r, c, current_player, m.ok, NoMove)
      /\ UNCHANGED <<current_player, game_over, ai_enabled, difficulty, ai>>

(* logic.switch_turn() *)
SwitchTurn ==
  /\ Fresh
  /\ current_player' = get_opponent(current_player)
  /\ last' = Call("switch_turn", 0, 0, current_player, TRUE, NoMove)
  /\ UNCHANGED <<board, game_over, ai_enabled, difficulty, ai>>

(* logic.get_valid_moves(player): the returned list is kept in last.move. *)
GetValidMoves(player) ==
  /\ Fresh
  /\ last' = Call("get_valid_moves", 0, 0, player, TRUE, get_valid_moves(board, player))
  /\ UNCHANGED <<board, current_player, game_over, ai_enabled, difficulty, ai>>

(* logic.is_game_over(): the returned flag is kept in last.ok.             *)
IsGameOver ==
  /\ Fresh
  /\ last' = Call("is_game_over", 0, 0, current_player, is_game_over(board), NoMove)
  /\ UNCHANGED <<board, current_player, game_over, ai_enabled, difficulty, ai>>

(* logic.get_score(): the returned pair is kept in last.move.              *)
GetScore ==
  /\ Fresh
  /\ last' = Call("get_score", 0, 0, current_player, TRUE, get_score(board))
  /\ UNCHANGED <<board, current_player, game_over, ai_enabled, difficulty, ai>>

(* logic.get_winner(): the returned value is kept in last.move.            *)
GetWinner ==
  /\ Fresh
  /\ last' = Call("get_winner", 0, 0, current_player, TRUE, get_winner(board))
  /\ UNCHANGED <<board, current_player, game_over, ai_enabled, difficulty, ai>>

Next ==
  \/ \E r \in Coords, c \in Coords : MakeMove(r, c)
  \/ SwitchTurn
  \/ \E player \in Players : GetValidMoves(player)
  \/ IsGameOver
  \/ GetScore
  \/ GetWinner

Spec == Init /\ [][Next]_vars


(***************************************************************************)
(* SpecAI: an OthelloAI object asked for its move on the boards of the     *)
(* recorded games.                                                         *)
(***************************************************************************)
InitAI ==
  /\ board = OthelloLogic.board
  /\ current_player = OthelloLogic.current_player
  /\ game_over = FALSE
  /\ ai_enabled = TRUE
  /\ difficulty \in 1 .. 3
  /\ \E player \in Players : ai = OthelloAI(player, difficulty)
  /\ last = NoCall

(* logic.make_move(r, c, player) with the next move of a recorded game.    *)
PlayRecorded(r, c, player) ==
  LET m == make_move(board, r, c, player)
  IN  /\ Fresh
      /\ Recorded(board, r, c, player)
      /\ board' = m.board
      /\ last' = Call("make_move", r, c, player, m.ok, NoMove)
      /\ UNCHANGED <<current_player, game_over, ai_enabled, difficulty, ai>>

(* ai.get_best_move(logic): the live object is reference 1 of the store    *)
(* the call runs in, and is read back from it after the call.              *)
GetBestMove ==
  /\ Fresh
  /\ \E res \in get_best_move(ai, <<[board |-> board, current_player |-> current_player]>>, 1) :
       /\ board' = res.heap[1].board
       /\ current_player' = res.heap[1].current_player
       /\ last' = Call("get_best_move", 0, 0, ai.player, res.move # NoMove, res.move)
  /\ UNCHANGED <<game_over, ai_enabled, difficulty, ai>>

NextAI ==
  \/ \E r \in Range, c \in Range, player \in Players : PlayRecorded(r, c, player)
  \/ GetBestMove

SpecAI == InitAI /\ [][NextAI]_vars


(***************************************************************************)
(* SpecSearch: minimax and minimax_root of a tier 3 agent called directly  *)
(* on boards of the recorded games, with every depth of Depths.            *)
(***************************************************************************)
Depths == 0 .. 4

(* The initial board and every second board of each recorded game, ending  *)
(* with the terminal board of the first and, for the second, the board on  *)
(* which BLACK has no move while WHITE has.                                *)
SearchBoards ==
  {InitialBoard}
    \cup {Positions[1][k + 1] : k \in {1, 3, 5, 7, 9}}
    \cup {Positions[2][k + 1] : k \in {2, 4, 6, 8}}

(* The record of a search call: its arguments, the returned value, the     *)
(* number of copies the search made, the calls of minimax made for the     *)
(* root moves, and the program's state before it.                          *)
SearchCall(op, depth, is_maximizing, result, copies, calls) ==
  [op |-> op, depth |-> depth, is_maximizing |-> is_maximizing, result |-> result,
   copies |-> copies, calls |-> calls,
   board |-> board, turn |-> current_player, over |-> game_over]

InitSearch ==
  /\ board \in SearchBoards
  /\ current_player = OthelloLogic.current_player
  /\ game_over = FALSE
  /\ ai_enabled = TRUE
  /\ difficulty = 3
  /\ \E player \in Players : ai = OthelloAI(player, difficulty)
  /\ last = NoCall

(* ai.minimax(logic, depth, is_maximizing, float("-inf"), float("inf")) *)
Minimax(depth, is_maximizing) ==
  /\ last.op = "init"
  /\ \E res \in {minimax(ai, <<[board |-> board, current_player |-> current_player]>>, 1,
                          depth, is_maximizing, 0 - INF, INF)} :
         /\ board' = res.heap[1].board
         /\ current_player' = res.heap[1].current_player
         /\ last' = SearchCall("minimax", depth, is_maximizing, res.value,
                                Len(res.heap) - 1, <<>>)
  /\ UNCHANGED <<game_over, ai_enabled, difficulty, ai>>

(* ai.minimax_root(logic, logic.get_valid_moves(ai.player)) of an agent    *)
(* whose depth attribute is depth; as in get_best_move, the call is made   *)
(* with a list of moves that is not empty.                                 *)
MinimaxRoot(depth) ==
  /\ last.op = "init"
  /\ depth >= 1
  /\ get_valid_moves(board, ai.player) # <<>>
  /\ \E res \in {minimax_root([ai EXCEPT !.depth = depth],
                               <<[board |-> board, current_player |-> current_player]>>, 1,
                               get_valid_moves(board, ai.player))} :
         /\ board' = res.heap[1].board
         /\ current_player' = res.heap[1].current_player
         /\ last' = SearchCall("minimax_root", depth, TRUE, res.move,
                                Len(res.heap) - 1, res.calls)
  /\ UNCHANGED <<game_over, ai_enabled, difficulty, ai>>

NextSearch ==
  \/ \E depth \in Depths, is_maximizing \in BOOLEAN : Minimax(depth, is_maximizing)
  \/ \E depth \in Depths : MinimaxRoot(depth)

SpecSearch == InitSearch /\ [][NextSearch]_vars


(***************************************************************************)
(* SpecRun: the session loop OthelloGame.run.  A frame handles its events  *)
(* one after another and then runs the game logic once; the handlers are   *)
(* the actions, so the events of one frame are consecutive steps.          *)
(***************************************************************************)
(* MenuScreen.show: (ai_enabled, difficulty) *)
MenuChoices == {<<FALSE, 0>>, <<TRUE, 1>>, <<TRUE, 2>>, <<TRUE, 3>>}

(* OthelloGame.__init__ and reset_game *)
InitRun ==
  /\ board = OthelloLogic.board
  /\ current_player = OthelloLogic.current_player
  /\ game_over = FALSE
  /\ \E choice \in MenuChoices :
       /\ ai_enabled = choice[1]
       /\ difficulty = choice[2]
  /\ ai = IF ai_enabled THEN OthelloAI(WHITE, difficulty) ELSE NoAI
  /\ last = NoCall

(* Faulty: a successful click does not switch the turn.                    *)
Click_no_switch(cx, cy) ==
  /\ Fresh
  /\ ~game_over
  /\ ~(ai_enabled /\ current_player = WHITE)
  /\ IF 0 <= cx /\ cx < BOARD_SIZE /\ 0 <= cy /\ cy < BOARD_SIZE
     THEN LET m == make_move(board, cy, cx, current_player)
          IN  /\ m.ok => Explored(board, cy, cx, current_player)
              /\ board' = m.board
              /\ current_player' = current_player
              /\ last' = Call("click", cy, cx, current_player, m.ok, NoMove)
     ELSE /\ UNCHANGED <<board, current_player>>
          /\ last' = Call("click", cy, cx, current_player, FALSE, NoMove)
  /\ UNCHANGED <<game_over, ai_enabled, difficulty, ai>>

(* Faulty: a click is handled while the AI is to move.                     *)
Click_during_ai(cx, cy) ==
  /\ Fresh
  /\ ~game_over
  /\ IF 0 <= cx /\ cx < BOARD_SIZE /\ 0 <= cy /\ cy < BOARD_SIZE
     THEN LET m == make_move(board, cy, cx, current_player)
          IN  /\ m.ok => Explored(board, cy, cx, current_player)
              /\ board' = m.board
              /\ current_player' = IF m.ok THEN get_opponent(current_player)
                                   ELSE current_player
              /\ last' = Call("click", cy, cx, current_player, m.ok, NoMove)
     ELSE /\ UNCHANGED <<board, current_player>>
          /\ last' = Call("click", cy, cx, current_player, FALSE, NoMove)
  /\ UNCHANGED <<game_over, ai_enabled, difficulty, ai>>

(* A left click that maps to grid column cx, row cy, while the game is on. *)
Click(cx, cy) ==
  /\ Fresh
  /\ ~game_over
  /\ ~(ai_enabled /\ current_player = WHITE)
  /\ IF 0 <= cx /\ cx < BOARD_SIZE /\ 0 <= cy /\ cy < BOARD_SIZE
     THEN LET m == make_move(board, cy, cx, current_player)
          IN  /\ m.ok => Explored(board, cy, cx, current_player)
              /\ board' = m.board
              /\ current_player' = IF m.ok THEN get_opponent(current_player)
                                   ELSE current_player
              /\ last' = Call("click", cy, cx, current_player, m.ok, NoMove)
     ELSE /\ UNCHANGED <<board, current_player>>
          /\ last' = Call("click", cy, cx, current_player, FALSE, NoMove)
  /\ UNCHANGED <<game_over, ai_enabled, difficulty, ai>>

(* A left click while the AI is to move: ignored.                          *)
ClickIgnored(cx, cy) ==
  /\ Fresh
  /\ ~game_over
  /\ ai_enabled /\ current_player = WHITE
  /\ last' = Call("click_ignored", cy, cx, current_player, FALSE, NoMove)
  /\ UNCHANGED <<board, current_player, game_over, ai_enabled, difficulty, ai>>

(* The "Play Again" button of the game-over screen: reset_game().          *)
PlayAgain ==
  /\ game_over
  /\ board' = OthelloLogic.board
  /\ current_player' = OthelloLogic.current_player
  /\ ai' = IF ai_enabled THEN OthelloAI(WHITE, difficulty) ELSE NoAI
  /\ game_over' = FALSE
  /\ last' = Call("play_again", 0, 0, current_player, TRUE, NoMove)
  /\ UNCHANGED <<ai_enabled, difficulty>>

(* Faulty: the game is over only when no cell is EMPTY.                     *)
LogicGameOver_full_board ==
  /\ Fresh
  /\ ~game_over
  /\ Count(board, EMPTY) = 0
  /\ game_over' = TRUE
  /\ last' = Call("game_over", 0, 0, current_player, TRUE, NoMove)
  /\ UNCHANGED <<board, current_player, ai_enabled, difficulty, ai>>

(* The game logic of a frame, first branch: the game is over.              *)
LogicGameOver ==
  /\ Fresh
  /\ ~game_over
  /\ is_game_over(board)
  /\ game_over' = TRUE
  /\ last' = Call("game_over", 0, 0, current_player, TRUE, NoMove)
  /\ UNCHANGED <<board, current_player, ai_enabled, difficulty, ai>>

(* Faulty: the pass is announced but the turn is not switched.             *)
LogicPass_no_switch ==
  /\ Fresh
  /\ ~game_over
  /\ ~is_game_over(board)
  /\ get_valid_moves(board, current_player) = <<>>
  /\ last' = Call("pass", 0, 0, current_player, TRUE, NoMove)
  /\ UNCHANGED <<board, current_player, game_over, ai_enabled, difficulty, ai>>

(* Faulty: the pass is made without the test for the end of the game.      *)
LogicPass_unchecked ==
  /\ Fresh
  /\ ~game_over
  /\ get_valid_moves(board, current_player) = <<>>
  /\ current_player' =
       switch_turn(<<[board |-> board, current_player |-> current_player]>>, 1)[1].current_player
  /\ last' = Call("pass", 0, 0, current_player, TRUE, NoMove)
  /\ UNCHANGED <<board, game_over, ai_enabled, difficulty, ai>>

(* Second branch: the player to move has no valid move and passes.         *)
LogicPass ==
  /\ Fresh
  /\ ~game_over
  /\ ~is_game_over(board)
  /\ get_valid_moves(board, current_player) = <<>>
  /\ current_player' =
       switch_turn(<<[board |-> board, current_player |-> current_player]>>, 1)[1].current_player
  /\ last' = Call("pass", 0, 0, current_player, TRUE, NoMove)
  /\ UNCHANGED <<board, game_over, ai_enabled, difficulty, ai>>

(* Third branch: the AI's turn.  get_best_move runs on the live object     *)
(* (reference 1); its move, if any, is made for WHITE, then the turn is    *)
(* switched.                                                               *)
LogicAITurn ==
  /\ Fresh
  /\ ~game_over
  /\ ~is_game_over(board)
  /\ get_valid_moves(board, current_player) # <<>>
  /\ ai_enabled /\ current_player = WHITE
  /\ \E res \in get_best_move(ai, <<[board |-> board, current_player |-> current_player]>>, 1) :
       LET moved == IF res.move # NoMove
                    THEN obj_make_move(res.heap, 1, res.move[1], res.move[2], WHITE)
                    ELSE [ok |-> FALSE, heap |-> res.heap]
           after == switch_turn(moved.heap, 1)
       IN  /\ board' = after[1].board
           /\ current_player' = after[1].current_player
           /\ last' = Call("ai_turn", 0, 0, WHITE, moved.ok, res.move)
  /\ UNCHANGED <<game_over, ai_enabled, difficulty, ai>>

NextRun ==
  \/ \E cx \in Coords, cy \in Coords : Click(cx, cy)
  \/ \E cx \in Coords, cy \in Coords : ClickIgnored(cx, cy)
  \/ PlayAgain
  \/ LogicGameOver
  \/ LogicPass
  \/ LogicAITurn

SpecRun == InitRun /\ [][NextRun]_vars


(***************************************************************************)
(* SpecPlay: sessions played to the end.  The players' choices, and the    *)
(* outcomes of random.choice in the first tier, are bounded: a player who  *)
(* has a legal move picks one of ChosenCells.                              *)
(* A rejected or ignored click changes nothing of the program's state and  *)
(* is a stuttering step here.  The loop runs the game logic in every       *)
(* frame, so its three branches are weakly fair; the click on a legal cell *)
(* is weakly fair by hypothesis; "Play Again" is not fair.  The weak       *)
(* fairness of PlayMove and of PlayAITurn is written with the enabling     *)
(* condition spelled out as a state predicate, MoveEnabled and             *)
(* AITurnEnabled: WF_vars(A) is []<>~ENABLED <<A>>_vars \/ []<><<A>>_vars.  *)
(***************************************************************************)
(* The opening moves are free in sessions of difficulty up to MaxFreeTier  *)
(* (0: two players at one screen).                                         *)
MaxFreeTier == 0

(* The legal moves a player picks from on board b: those the exploration   *)
(* follows, and where there is none the one at an index fixed by the       *)
(* number of pieces placed.                                                *)
ChosenCells(b, player) ==
  LET Followed(r, c) ==
        \/ difficulty <= MaxFreeTier /\ Placed(b) < MaxFree
        \/ Recorded(b, r, c, player)
        \/ RecordedEnd(b, r, c, player)
      Pick(valid_moves, n) ==
        LET followed == {i \in 1 .. Len(valid_moves) :
                           Followed(valid_moves[i][1], valid_moves[i][2])}
        IN  IF valid_moves = <<>> THEN {}
            ELSE IF followed # {} THEN {valid_moves[i] : i \in followed}
            ELSE {valid_moves[(n % Len(valid_moves)) + 1]}
  IN  Pick(get_valid_moves(b, player), Placed(b))

(* A left click on the cell of column cx, row cy, a legal one, while the   *)
(* game is on.                                                             *)
PlayClick(cx, cy) ==
  /\ ~game_over
  /\ ~(ai_enabled /\ current_player = WHITE)
  /\ 0 <= cx /\ cx < BOARD_SIZE /\ 0 <= cy /\ cy < BOARD_SIZE
  /\ LET m == make_move(board, cy, cx, current_player)
     IN  /\ m.ok
         /\ board' = m.board
         /\ current_player' = get_opponent(current_player)
         /\ last' = Call("click", cy, cx, current_player, m.ok, NoMove)
  /\ UNCHANGED <<game_over, ai_enabled, difficulty, ai>>

(* A click on one of the cells the player to move picks from.              *)
PlayMove ==
  \E rc \in ChosenCells(board, current_player) : PlayClick(rc[2], rc[1])

(* The AI's turn; in the first tier random.choice returns a chosen move.   *)
PlayAITurn ==
  /\ LogicAITurn
  /\ difficulty = 1 => last'.move \in ChosenCells(board, WHITE)

(* PlayMove is enabled: the conditions of the click handler, and a legal   *)
(* move for the player to move, so that ChosenCells is not empty.          *)
MoveEnabled ==
  /\ ~game_over
  /\ ~(ai_enabled /\ current_player = WHITE)
  /\ get_valid_moves(board, current_player) # <<>>

(* PlayAITurn is enabled: the conditions of LogicAITurn; get_best_move      *)
(* returns a move whenever the list of valid moves is not empty, and       *)
(* ChosenCells is not empty then.                                          *)
AITurnEnabled ==
  /\ Fresh
  /\ ~game_over
  /\ ~is_game_over(board)
  /\ get_valid_moves(board, current_player) # <<>>
  /\ ai_enabled /\ current_player = WHITE

NextPlay ==
  \/ PlayMove
  \/ PlayAgain
  \/ LogicGameOver
  \/ LogicPass
  \/ PlayAITurn

SpecPlay ==
  /\ InitRun
  /\ [][NextPlay]_vars
  /\ ([]<>(~MoveEnabled) \/ []<><<PlayMove>>_vars)
  /\ WF_vars(LogicGameOver)
  /\ WF_vars(LogicPass)
  /\ ([]<>(~AITurnEnabled) \/ []<><<PlayAITurn>>_vars)


(***************************************************************************)
(* The rules as the claims state them, independent of the definitions      *)
(* above.                                                                  *)
(***************************************************************************)
Dirs8 == ({-1, 0, 1} \X {-1, 0, 1}) \ {<<0, 0>>}

OnBoard(r, c) == r \in 0 .. 7 /\ c \in 0 .. 7

Other(P) == IF P = "B" THEN "W" ELSE "B"

(* Direction d brackets exactly k opponent pieces from (r, c) for P.       *)
Brackets(b, r, c, d, k, P) ==
  /\ \A j \in 1 .. k :
       /\ OnBoard(r + j * d[1], c + j * d[2])
       /\ b[r + j * d[1]][c + j * d[2]] = Other(P)
  /\ OnBoard(r + (k + 1) * d[1], c + (k + 1) * d[2])
  /\ b[r + (k + 1) * d[1]][c + (k + 1) * d[2]] = P

LegalCell(b, r, c, P) ==
  /\ OnBoard(r, c)
  /\ b[r][c] = "None"
  /\ \E d \in Dirs8 : \E k \in 1 .. 6 : Brackets(b, r, c, d, k, P)

LegalCells(b, P) == {rc \in (0 .. 7) \X (0 .. 7) : LegalCell(b, rc[1], rc[2], P)}

(* The opponent pieces bracketed from (r, c), over all 8 directions.       *)
Bracketed(b, r, c, P) ==
  {x \in (0 .. 7) \X (0 .. 7) :
     \E d \in Dirs8 : \E k \in 1 .. 6 :
       /\ Brackets(b, r, c, d, k, P)
       /\ \E j \in 1 .. k : x = <<r + j * d[1], c + j * d[2]>>}

RowMajorBefore(x, y) == x[1] < y[1] \/ (x[1] = y[1] /\ x[2] < y[2])

(***************************************************************************)
(* C1: get_valid_moves(P) returns, without duplicates and in row-major     *)
(* order, exactly the empty on-board cells from which some direction       *)
(* brackets one or more opponent pieces against a P piece.                 *)
(***************************************************************************)
C1_ValidMovesExact ==
  last.op = "get_valid_moves" =>
    /\ {last.move[i] : i \in 1 .. Len(last.move)} = LegalCells(last.board, last.player)
    /\ \A i \in 1 .. Len(last.move) : \A j \in 1 .. Len(last.move) :
         i < j => RowMajorBefore(last.move[i], last.move[j])

(* A call answered with moves in at least two rows and two in one row, on  *)
(* a board where a run of two or more pieces is bracketed.                 *)
C1_Witness ==
  /\ last.op = "get_valid_moves"
  /\ \E i \in 1 .. Len(last.move) : \E j \in 1 .. Len(last.move) :
       last.move[i][1] < last.move[j][1]
  /\ \E i \in 1 .. Len(last.move) : \E j \in 1 .. Len(last.move) :
       last.move[i][1] = last.move[j][1] /\ last.move[i][2] < last.move[j][2]
  /\ \E i \in 1 .. Len(last.move) :
       Cardinality(Bracketed(last.board, last.move[i][1], last.move[i][2], last.player)) >= 2

(***************************************************************************)
(* C2: a successful make_move(r, c, P) changes exactly (r, c) and the      *)
(* opponent pieces bracketed from it in any of the 8 directions, all to P; *)
(* every other cell and current_player stay as they were.                  *)
(***************************************************************************)
C2_MoveFrame ==
  (last.op = "make_move" /\ last.ok) =>
    /\ \A r \in 0 .. 7 : \A c \in 0 .. 7 :
         IF <<r, c>> = <<last.r, last.c>>
            \/ <<r, c>> \in Bracketed(last.board, last.r, last.c, last.player)
         THEN board[r][c] = last.player /\ last.board[r][c] # last.player
         ELSE board[r][c] = last.board[r][c]
    /\ current_player = last.turn

(* A successful move that captures along more than one direction.          *)
C2_Witness ==
  /\ last.op = "make_move" /\ last.ok
  /\ Cardinality({d \in Dirs8 : \E k \in 1 .. 6 :
                    Brackets(last.board, last.r, last.c, d, k, last.player)}) >= 2

(***************************************************************************)
(* C3: make_move(r, c, P) with (r, c) not a legal move for P (occupied,    *)
(* not bracketing, or off the board on either side) returns False and      *)
(* leaves every cell and current_player unchanged.                         *)
(***************************************************************************)
C3_IllegalRejected ==
  (last.op = "make_move" /\ ~LegalCell(last.board, last.r, last.c, last.player)) =>
    /\ ~last.ok
    /\ board = last.board
    /\ current_player = last.turn

(* A rejected call with a negative coordinate.                             *)
C3_Witness ==
  /\ last.op = "make_move"
  /\ ~last.ok
  /\ (last.r < 0 \/ last.c < 0)
  /\ board = last.board


(***************************************************************************)
(* C4: is_game_over() answers True exactly when neither player has a legal *)
(* move, and the session sets game_over only on such a board, with or      *)
(* without passes before.  The game logic of a frame takes its game-over   *)
(* branch when is_game_over() is True and its pass or AI branch only when  *)
(* it is False.                                                            *)
(***************************************************************************)
Terminal(b) == LegalCells(b, "B") = {} /\ LegalCells(b, "W") = {}

(* C4: is_game_over() is True exactly on boards where neither player has  *)
(* a legal move, and game_over is set only in such a state.                *)
C4_GameOverIffNoMoves ==
  /\ last.op = "game_over" => Terminal(last.board)
  /\ last.op \in {"pass", "ai_turn"} => ~Terminal(last.board)
  /\ game_over => Terminal(board)

(* The flag set by the game logic on a board where pieces of one colour    *)
(* are left.                                                               *)
C4_Witness ==
  /\ game_over
  /\ last.op = "game_over"
  /\ ~last.over

(***************************************************************************)
(* C5: when the game logic of a frame runs with the player to move having  *)
(* no legal move and the opponent having one, the game is not marked over, *)
(* the turn goes to the opponent and no cell changes.                      *)
(***************************************************************************)
MustPass(b, P) == LegalCells(b, P) = {} /\ LegalCells(b, Other(P)) # {}

(* C5: a pass of the session loop leaves the game not over, gives the turn *)
(* to the opponent and changes no cell.                                    *)
C5_PassSwitchesTurn ==
  (last.op \in {"game_over", "pass", "ai_turn"} /\ MustPass(last.board, last.turn)) =>
    /\ last.op = "pass"
    /\ ~game_over
    /\ current_player = Other(last.turn)
    /\ board = last.board

C5_Witness ==
  /\ last.op = "pass"
  /\ MustPass(last.board, last.turn)
  /\ current_player = Other(last.turn)


(***************************************************************************)
(* C6: get_best_move of a tier 1, 2 or 3 agent returns None only when the  *)
(* agent's player has no legal move; otherwise it returns one of the       *)
(* player's legal moves, which make_move then accepts.                     *)
(***************************************************************************)
C6_BestMoveLegal ==
  (last.op = "get_best_move" /\ ai.difficulty \in 1 .. 3) =>
    IF LegalCells(last.board, ai.player) = {}
    THEN last.move = <<>>
    ELSE /\ last.move \in LegalCells(last.board, ai.player)
         /\ make_move(last.board, last.move[1], last.move[2], ai.player).ok

(* None returned to an agent whose player must pass while the opponent can *)
(* still move.                                                             *)
C6_Witness ==
  /\ last.op = "get_best_move"
  /\ last.move = <<>>
  /\ MustPass(last.board, ai.player)

(***************************************************************************)
(* C7: at every depth up to 4 the value returned by minimax with           *)
(* alpha-beta pruning, started with the full window, equals the value of   *)
(* exhaustive minimax with the same move order, pass rule and evaluator,   *)
(* and the move returned by minimax_root at that depth is the move the     *)
(* exhaustive search returns.                                              *)
(***************************************************************************)
SetMax(S) == CHOOSE x \in S : \A y \in S : y <= x
SetMin(S) == CHOOSE x \in S : \A y \in S : x <= y

(* Exhaustive minimax: every move of every node is searched.               *)
RECURSIVE PlainMinimax(_, _, _, _)
PlainMinimax(self, b, depth, is_maximizing) ==
  LET player == IF is_maximizing THEN self.player ELSE get_opponent(self.player)
      moves == get_valid_moves(b, player)
      others == get_valid_moves(b, get_opponent(player))
      values == {PlainMinimax(self, make_move(b, moves[i][1], moves[i][2], player).board,
                              depth - 1, ~is_maximizing) : i \in 1 .. Len(moves)}
  IN  IF depth = 0 \/ (moves = <<>> /\ others = <<>>) THEN evaluate(self, b)
      ELSE IF moves = <<>> THEN PlainMinimax(self, b, depth - 1, ~is_maximizing)
      ELSE IF is_maximizing THEN SetMax(values) ELSE SetMin(values)

(* The scores of the root moves under exhaustive search of the given depth. *)
PlainScores(self, b, moves, depth) ==
  [i \in 1 .. Len(moves) |->
     PlainMinimax(self, make_move(b, moves[i][1], moves[i][2], self.player).board,
                  depth - 1, FALSE)]

(* The first root move whose exhaustive score is the maximum.              *)
PlainRoot(self, b, moves, depth) ==
  LET scores == PlainScores(self, b, moves, depth)
      first == CHOOSE i \in 1 .. Len(moves) :
                 /\ \A j \in 1 .. Len(moves) : scores[j] <= scores[i]
                 /\ \A j \in 1 .. (i - 1) : scores[j] < scores[i]
  IN  moves[first]

(* C7: up to depth 4, minimax with pruning returns the score, and          *)
(* minimax_root the move, of exhaustive minimax at the same depth.         *)
C7_PruningExact ==
  /\ last.op = "minimax" =>
       last.result = PlainMinimax(ai, last.board, last.depth, last.is_maximizing)
  /\ last.op = "minimax_root" =>
       last.result = PlainRoot(ai, last.board, get_valid_moves(last.board, ai.player),
                               last.depth)

(* The number of boards below b in the exhaustive tree.                    *)
RECURSIVE PlainNodes(_, _, _, _)
PlainNodes(self, b, depth, is_maximizing) ==
  LET player == IF is_maximizing THEN self.player ELSE get_opponent(self.player)
      moves == get_valid_moves(b, player)
      others == get_valid_moves(b, get_opponent(player))
      RECURSIVE Sum(_)
      Sum(i) == IF i > Len(moves) THEN 0
                ELSE 1 + PlainNodes(self, make_move(b, moves[i][1], moves[i][2], player).board,
                                    depth - 1, ~is_maximizing)
                     + Sum(i + 1)
  IN  IF depth = 0 \/ (moves = <<>> /\ others = <<>>) THEN 0
      ELSE IF moves = <<>> THEN PlainNodes(self, b, depth - 1, ~is_maximizing)
      ELSE Sum(1)

(* A search of depth 4 that made fewer copies than there are boards in the *)
(* exhaustive tree, so a cutoff happened, and returned the exhaustive      *)
(* value.                                                                  *)
C7_Witness ==
  /\ last.op = "minimax"
  /\ last.depth = 4
  /\ last.copies < PlainNodes(ai, last.board, last.depth, last.is_maximizing)
  /\ last.result = PlainMinimax(ai, last.board, last.depth, last.is_maximizing)


(***************************************************************************)
(* C8: the value minimax returns at depth 0 or on a terminal board.        *)
(* As claimed: 10 x material + positional + 5 x mobility (C8_ThreeTerms).  *)
(* As the code computes it: the positional term alone, the sum of          *)
(* WEIGHTS[r][c] over the agent's cells minus the sum over the opponent's  *)
(* cells (C8_PositionalOnly).                                              *)
(***************************************************************************)
RECURSIVE WeightSum(_)
WeightSum(S) ==
  IF S = {} THEN 0
  ELSE LET x == CHOOSE y \in S : TRUE
       IN  WEIGHTS[x[1] + 1][x[2] + 1] + WeightSum(S \ {x})

CellsOf(b, P) == {rc \in (0 .. 7) \X (0 .. 7) : b[rc[1]][rc[2]] = P}

Material(b, P) == Cardinality(CellsOf(b, P)) - Cardinality(CellsOf(b, Other(P)))

Positional(b, P) == WeightSum(CellsOf(b, P)) - WeightSum(CellsOf(b, Other(P)))

Mobility(b, P) ==
  Cardinality(LegalCells(b, P)) - Cardinality(LegalCells(b, Other(P)))

(* The values minimax returns without searching: at depth 0, and at any    *)
(* depth once the board is terminal.                                       *)
StaticValues(b) ==
  LET obj == [board |-> b, current_player |-> last.turn]
  IN  {minimax(ai, <<obj>>, 1, 0, is_maximizing, 0 - INF, INF).value :
         is_maximizing \in BOOLEAN}
      \cup (IF Terminal(b)
            THEN {minimax(ai, <<obj>>, 1, ai.depth - 1, FALSE, 0 - INF, INF).value}
            ELSE {})

(* C8 as claimed: the static value is 10 x material + positional          *)
(* + 5 x mobility, from the agent's perspective.                           *)
C8_ThreeTerms ==
  (last.op = "get_best_move" /\ ai.difficulty = 3) =>
    StaticValues(last.board)
      = {10 * Material(last.board, ai.player) + Positional(last.board, ai.player)
           + 5 * Mobility(last.board, ai.player)}

(* C8 as the code computes it: the static value is the positional term    *)
(* alone, from the agent's perspective.                                    *)
C8_PositionalOnly ==
  (last.op = "get_best_move" /\ ai.difficulty = 3) =>
    StaticValues(last.board) = {Positional(last.board, ai.player)}

(* A static value on a board where the three-term sum and the positional   *)
(* term differ.                                                            *)
C8_Witness ==
  /\ last.op = "get_best_move"
  /\ ai.difficulty = 3
  /\ 10 * Material(last.board, ai.player) + 5 * Mobility(last.board, ai.player) # 0
  /\ Positional(last.board, ai.player) # 0
  /\ StaticValues(last.board) = {Positional(last.board, ai.player)}

(***************************************************************************)
(* C9: get_best_move leaves the live logic object as it was, and every     *)
(* board the search works on is a copy holding only the moves of its own   *)
(* line: each object of the store other than the live one is a board of    *)
(* the search tree below the live board.                                   *)
(***************************************************************************)
(* The boards of the search tree below b: each child, and the tree below   *)
(* each child.                                                             *)
RECURSIVE TreeBoards(_, _, _, _)
TreeBoards(self, b, depth, is_maximizing) ==
  IF depth = 0 \/ Terminal(b) THEN {}
  ELSE LET P == IF is_maximizing THEN self.player ELSE Other(self.player)
           children == {make_move(b, rc[1], rc[2], P).board : rc \in LegalCells(b, P)}
       IN  IF children = {} THEN TreeBoards(self, b, depth - 1, ~is_maximizing)
           ELSE children
                \cup UNION {TreeBoards(self, child, depth - 1, ~is_maximizing) :
                              child \in children}

(* C9: get_best_move leaves the live object unchanged and every other     *)
(* object of the store is a board of the search tree below the live board.*)
C9_SearchIsolated ==
  last.op = "get_best_move" =>
    /\ board = last.board
    /\ current_player = last.turn
    /\ LET obj == [board |-> last.board, current_player |-> last.turn]
           tree == TreeBoards(ai, last.board, ai.depth, TRUE)
       IN  \A res \in get_best_move(ai, <<obj>>, 1) :
             /\ res.heap[1] = obj
             /\ \A k \in 2 .. Len(res.heap) : res.heap[k].board \in tree

(* A minimax search that worked on copies for several root moves.          *)
C9_Witness ==
  /\ last.op = "get_best_move"
  /\ ai.difficulty = 3
  /\ board = last.board
  /\ Cardinality(LegalCells(last.board, ai.player)) >= 2
  /\ LET obj == [board |-> last.board, current_player |-> last.turn]
     IN  \A res \in get_best_move(ai, <<obj>>, 1) : Len(res.heap) > 3

(***************************************************************************)
(* C10: with a legal move available, the greedy tier returns a legal move  *)
(* capturing the most pieces over all 8 directions, and of several such    *)
(* moves the first in row-major order.                                     *)
(***************************************************************************)
Captures(b, rc, P) == Cardinality(Bracketed(b, rc[1], rc[2], P))

(* C10: the greedy tier returns a legal move of maximal total flip count,  *)
(* the first such move in row-major order.                                 *)
C10_GreedyFirstMax ==
  (last.op = "get_best_move" /\ ai.difficulty = 2
     /\ LegalCells(last.board, ai.player) # {}) =>
    /\ last.move \in LegalCells(last.board, ai.player)
    /\ \A rc \in LegalCells(last.board, ai.player) :
         /\ Captures(last.board, rc, ai.player) <= Captures(last.board, last.move, ai.player)
         /\ Captures(last.board, rc, ai.player) = Captures(last.board, last.move, ai.player)
              => (rc = last.move \/ RowMajorBefore(last.move, rc))

(* A greedy choice among moves capturing different numbers of pieces, the  *)
(* maximum reached by more than one move and not by the first legal move.  *)
C10_Witness ==
  /\ last.op = "get_best_move"
  /\ ai.difficulty = 2
  /\ LET legal == LegalCells(last.board, ai.player)
         best == Captures(last.board, last.move, ai.player)
     IN  /\ last.move \in legal
         /\ \E rc \in legal : rc # last.move /\ Captures(last.board, rc, ai.player) = best
         /\ \E rc \in legal : RowMajorBefore(rc, last.move)
                              /\ Captures(last.board, rc, ai.player) < best


(***************************************************************************)
(* C11: on a terminal board get_winner() returns BLACK iff there are more  *)
(* BLACK than WHITE cells, WHITE iff there are more WHITE than BLACK       *)
(* cells and "TIE" iff there are as many, the counts being those that      *)
(* get_score() returns, taken over all 64 cells.                           *)
(***************************************************************************)
C11_WinnerByCount ==
  LET blacks == Cardinality(CellsOf(last.board, "B"))
      whites == Cardinality(CellsOf(last.board, "W"))
  IN  /\ last.op = "get_score" => last.move = <<blacks, whites>>
      /\ (last.op = "get_winner" /\ Terminal(last.board)) =>
            /\ last.move = "B" <=> blacks > whites
            /\ last.move = "W" <=> whites > blacks
            /\ last.move = "TIE" <=> blacks = whites

(* get_winner() on a terminal board with as many BLACK as WHITE cells.     *)
C11_Witness ==
  /\ last.op = "get_winner"
  /\ Terminal(last.board)
  /\ Cardinality(CellsOf(last.board, "B")) = Cardinality(CellsOf(last.board, "W"))
  /\ last.move = "TIE"


(***************************************************************************)
(* C12: a freshly created OthelloLogic, at the start of a session and      *)
(* after "Play Again", has 2 BLACK and 2 WHITE cells in the central 2x2    *)
(* block, each colour on one of its diagonals, 60 EMPTY cells, BLACK to    *)
(* move, and get_valid_moves(BLACK) has 4 elements.                        *)
(***************************************************************************)
C12_FreshLogic ==
  last.op \in {"init", "play_again"} =>
    /\ {CellsOf(board, "W"), CellsOf(board, "B")}
          = {{<<3, 3>>, <<4, 4>>}, {<<3, 4>>, <<4, 3>>}}
    /\ Cardinality(CellsOf(board, "None")) = 60
    /\ current_player = "B"
    /\ Len(get_valid_moves(board, "B")) = 4
    /\ Cardinality(LegalCells(board, "B")) = 4

(* The logic object created by "Play Again" after a finished game.         *)
C12_Witness ==
  /\ last.op = "play_again"
  /\ last.over
  /\ Cardinality(CellsOf(last.board, "None")) < 60
  /\ Cardinality(CellsOf(board, "None")) = 60
  /\ current_player = "B"


(***************************************************************************)
(* C13: when make_move(r, c, P) has returned True, the same call made      *)
(* again right after it returns False and leaves the board as the first    *)
(* call left it.                                                           *)
(***************************************************************************)
C13_RepeatRejected ==
  (last.op = "make_move" /\ last.again) => (~last.ok /\ board = last.board)

(* A repeated call, rejected on the cell that now holds the piece the      *)
(* first call placed.                                                      *)
C13_Witness ==
  /\ last.op = "make_move"
  /\ last.again
  /\ ~last.ok
  /\ last.board[last.r][last.c] = last.player
  /\ InitialBoard[last.r][last.c] = "None"
  /\ board = last.board


(***************************************************************************)
(* C14: after any sequence of make_move calls from the initial board the   *)
(* board has 8 rows of 8 cells, every cell is EMPTY, BLACK or WHITE, and   *)
(* the BLACK, WHITE and EMPTY counts add up to 64.                         *)
(***************************************************************************)
C14_CellsConserved ==
  /\ DOMAIN board = 0 .. 7
  /\ \A r \in DOMAIN board :
       /\ DOMAIN board[r] = 0 .. 7
       /\ \A c \in DOMAIN board[r] : board[r][c] \in {"None", "B", "W"}
  /\ get_score(board)[1] + get_score(board)[2]
       + Cardinality({rc \in (0 .. 7) \X (0 .. 7) : board[rc[1]][rc[2]] = "None"}) = 64

(* A rejected call after at least two successful ones.                     *)
C14_Witness ==
  /\ last.op = "make_move"
  /\ ~last.ok
  /\ Cardinality(CellsOf(board, "B")) + Cardinality(CellsOf(board, "W")) >= 6
  /\ Cardinality(CellsOf(board, "B")) + Cardinality(CellsOf(board, "W"))
       + Cardinality(CellsOf(board, "None")) = 64

(***************************************************************************)
(* C19: a successful make_move(r, c, P) captures k >= 1 cells, raises P's  *)
(* count by k + 1, lowers the opponent's by k and the EMPTY count by 1;    *)
(* no call turns an occupied cell into an EMPTY one.                       *)
(***************************************************************************)
C19_CountsAfterMove ==
  /\ (last.op = "make_move" /\ last.ok) =>
       LET P == last.player
           k == Cardinality(Bracketed(last.board, last.r, last.c, P))
       IN  /\ k >= 1
           /\ Cardinality(CellsOf(board, P)) = Cardinality(CellsOf(last.board, P)) + k + 1
           /\ Cardinality(CellsOf(board, Other(P)))
                = Cardinality(CellsOf(last.board, Other(P))) - k
           /\ Cardinality(CellsOf(board, "None"))
                = Cardinality(CellsOf(last.board, "None")) - 1
  /\ \A rc \in (0 .. 7) \X (0 .. 7) :
       last.board[rc[1]][rc[2]] # "None" => board[rc[1]][rc[2]] # "None"

(* BLACK's move at (2, 3) on the initial board: one cell captured, 4 BLACK *)
(* and 1 WHITE afterwards.                                                 *)
C19_Witness ==
  /\ last.op = "make_move" /\ last.ok
  /\ last.board = InitialBoard
  /\ last.r = 2 /\ last.c = 3 /\ last.player = "B"
  /\ Bracketed(last.board, 2, 3, "B") = {<<3, 3>>}
  /\ Cardinality(CellsOf(board, "B")) = 4
  /\ Cardinality(CellsOf(board, "W")) = 1


(***************************************************************************)
(* C15: minimax_root calls minimax once for each legal move, in row-major  *)
(* order, on the board with that move applied, for the opponent's turn at  *)
(* depth D - 1, and returns the first move whose score is the maximum: a   *)
(* later move with an equal score does not replace it.                     *)
(***************************************************************************)
AfterMove(b, rc, P) ==
  [r \in 0 .. 7 |->
     [c \in 0 .. 7 |->
        IF <<r, c>> = rc \/ <<r, c>> \in Bracketed(b, rc[1], rc[2], P) THEN P
        ELSE b[r][c]]]

C15_RootFirstMax ==
  last.op = "minimax_root" =>
    LET calls == last.calls
        n == Len(calls)
    IN  /\ {calls[i].move : i \in 1 .. n} = LegalCells(last.board, ai.player)
        /\ \A i \in 1 .. n : \A j \in 1 .. n :
             i < j => RowMajorBefore(calls[i].move, calls[j].move)
        /\ \A i \in 1 .. n :
             /\ calls[i].board = AfterMove(last.board, calls[i].move, ai.player)
             /\ calls[i].depth = last.depth - 1
             /\ ~calls[i].is_maximizing
             /\ calls[i].score = PlainMinimax(ai, calls[i].board, last.depth - 1, FALSE)
        /\ \E i \in 1 .. n :
             /\ last.result = calls[i].move
             /\ \A j \in 1 .. n : calls[j].score <= calls[i].score
             /\ \A j \in 1 .. (i - 1) : calls[j].score < calls[i].score

(* A search of depth 3 in which a later root move reaches the score of the *)
(* returned one.                                                           *)
C15_Witness ==
  /\ last.op = "minimax_root"
  /\ last.depth = 3
  /\ \E i \in 1 .. Len(last.calls) : \E j \in 1 .. Len(last.calls) :
       /\ i < j
       /\ last.result = last.calls[i].move
       /\ last.calls[j].score = last.calls[i].score
       /\ \A k \in 1 .. Len(last.calls) : last.calls[k].score <= last.calls[i].score

(***************************************************************************)
(* C16: minimax at depth > 0 on a board that is not terminal, where the    *)
(* player to move has no legal move, returns what one call of minimax on   *)
(* the same board with the other player to move and depth - 1 returns, and *)
(* leaves the board unchanged; at depth 1 that is the static evaluation.   *)
(***************************************************************************)
C16_PassConsumesPly ==
  (/\ last.op = "minimax"
   /\ last.depth > 0
   /\ MustPass(last.board, IF last.is_maximizing THEN ai.player ELSE Other(ai.player))) =>
    LET rest == minimax(ai, <<[board |-> last.board, current_player |-> last.turn]>>, 1,
                        last.depth - 1, ~last.is_maximizing, 0 - INF, INF)
    IN  /\ last.result = rest.value
        /\ last.copies = Len(rest.heap) - 1
        /\ board = last.board
        /\ last.depth = 1 => last.result = Positional(last.board, ai.player)
        /\ last.depth > 1 => last.copies > 0

(* A pass at depth 3: the other player's moves are then searched two plies *)
(* deep.                                                                   *)
C16_Witness ==
  /\ last.op = "minimax"
  /\ last.depth = 3
  /\ MustPass(last.board, IF last.is_maximizing THEN ai.player ELSE Other(ai.player))
  /\ last.copies > 0
  /\ last.result = PlainMinimax(ai, last.board, 2, ~last.is_maximizing)

(***************************************************************************)
(* C17: the window minimax_root gives to the search of each root move.     *)
(***************************************************************************)
(* C17 as claimed: the search of every root move after the first starts    *)
(* with alpha at the best score among the root moves examined before it.   *)
C17_RootAlphaTightened ==
  last.op = "minimax_root" =>
    \A i \in 2 .. Len(last.calls) :
      last.calls[i].alpha = SetMax({last.calls[j].score : j \in 1 .. (i - 1)})

(* C17 as the code does it: the search of every root move starts with the  *)
(* full window, alpha at -infinity and beta at +infinity.                  *)
C17_RootFullWindow ==
  last.op = "minimax_root" =>
    \A i \in 1 .. Len(last.calls) :
      last.calls[i].alpha = 0 - INF /\ last.calls[i].beta = INF

(* A second root move searched with the full window after a first one      *)
(* whose score is known.                                                   *)
C17_Witness ==
  /\ last.op = "minimax_root"
  /\ Len(last.calls) >= 2
  /\ last.calls[1].score > 0 - INF
  /\ last.calls[2].alpha = 0 - INF
  /\ last.calls[2].alpha < last.calls[1].score

(***************************************************************************)
(* C18: in the session loop every piece placed, and every piece flipped,   *)
(* has the colour of current_player at the moment of the move; after a     *)
(* successful move the turn is with the opponent of the player who moved   *)
(* (one switch); a rejected or ignored click leaves board and turn as they *)
(* were; and nothing but a click or the AI's turn changes the board of a   *)
(* running game.                                                           *)
(***************************************************************************)
ChangedCells(before, after) ==
  {rc \in (0 .. 7) \X (0 .. 7) : before[rc[1]][rc[2]] # after[rc[1]][rc[2]]}

C18_TurnDiscipline ==
  /\ (last.op = "click" /\ last.ok) =>
       /\ last.board[last.r][last.c] = EMPTY
       /\ board[last.r][last.c] = last.turn
       /\ \A rc \in ChangedCells(last.board, board) : board[rc[1]][rc[2]] = last.turn
       /\ current_player = Other(last.turn)
  /\ ((last.op = "click" /\ ~last.ok) \/ last.op = "click_ignored") =>
       /\ board = last.board
       /\ current_player = last.turn
  /\ last.op = "ai_turn" =>
       /\ last.turn = WHITE
       /\ last.ok
       /\ last.board[last.move[1]][last.move[2]] = EMPTY
       /\ board[last.move[1]][last.move[2]] = WHITE
       /\ \A rc \in ChangedCells(last.board, board) : board[rc[1]][rc[2]] = WHITE
       /\ current_player = BLACK
  /\ (last.op \notin {"init", "play_again"} /\ board # last.board) =>
       last.op \in {"click", "ai_turn"} /\ last.ok

(* Two players at one screen: WHITE, the current player, has clicked a     *)
(* legal cell, the piece placed is WHITE and BLACK is to move.             *)
C18_Witness ==
  /\ ~ai_enabled
  /\ last.op = "click" /\ last.ok
  /\ last.turn = WHITE
  /\ board[last.r][last.c] = WHITE
  /\ Cardinality(ChangedCells(last.board, board)) >= 2
  /\ current_player = BLACK

(***************************************************************************)
(* C20: in a session where the game logic runs in every frame and a player *)
(* who has a legal move eventually plays one, a game that is on is         *)
(* eventually over, and at no time have more than 60 successful moves been *)
(* made since the initial board.                                           *)
(***************************************************************************)
C20_GameEnds ==
  /\ (~game_over) ~> (game_over /\ last.moves <= 60)
  /\ [](last.moves <= 60 /\ last.moves = Placed(board))

(* A game declared over after 60 successful moves, the board full.         *)
C20_Witness ==
  /\ game_over
  /\ last.op = "game_over"
  /\ last.moves = 60
  /\ \A r \in 0 .. 7 : \A c \in 0 .. 7 : board[r][c] # EMPTY

(***************************************************************************)
(* C21: in the session loop a pass is made only on a board where the       *)
(* opponent has a legal move, and it leaves the board as it is; a pass is  *)
(* never followed directly by another pass nor by the end of the game; and *)
(* at every pass, and at the end of the game, at least one piece has been  *)
(* placed since the previous pass.                                         *)
(***************************************************************************)
C21_NoDoublePass ==
  [][/\ last'.op = "pass" =>
          /\ LegalCells(board, Other(current_player)) # {}
          /\ board' = board
          /\ current_player' = Other(current_player)
          /\ last.op # "pass"
          /\ last.pass_moves < last.moves
     /\ (last'.op = "game_over" /\ game_over') =>
          /\ last.op # "pass"
          /\ last.pass_moves < last.moves]_vars

(* The second pass of a game.                                              *)
C21_Witness ==
  /\ last.op = "pass"
  /\ last.passes >= 2
  /\ last.pass_moves = last.moves
  /\ LegalCells(board, current_player) # {}

(***************************************************************************)
(* C22: with the AI enabled, a click is applied only while BLACK is to     *)
(* move and places and flips BLACK only; a click while WHITE is to move,   *)
(* one queued right after a successful click included, changes nothing;    *)
(* and a cell becomes WHITE from EMPTY only in the AI's turn, at the move  *)
(* get_best_move returns.                                                  *)
(***************************************************************************)
C22_HumanPlaysBlackOnly ==
  (ai_enabled /\ last.op \notin {"init", "play_again"}) =>
    /\ last.op = "click" =>
         /\ last.turn = BLACK
         /\ ~last.queued
         /\ \A rc \in ChangedCells(last.board, board) : board[rc[1]][rc[2]] = BLACK
    /\ last.op = "click_ignored" =>
         /\ last.turn = WHITE
         /\ board = last.board
         /\ current_player = WHITE
    /\ \A rc \in ChangedCells(last.board, board) :
         (last.board[rc[1]][rc[2]] = EMPTY /\ board[rc[1]][rc[2]] = WHITE) =>
           /\ last.op = "ai_turn"
           /\ rc = last.move
           /\ \E res \in get_best_move(ai, <<[board |-> last.board,
                                               current_player |-> last.turn]>>, 1) :
                res.move = rc

(* A click queued right after BLACK's successful click, ignored while the  *)
(* AI is to move.                                                          *)
C22_Witness ==
  /\ ai_enabled
  /\ last.op = "click_ignored"
  /\ last.queued
  /\ last.turn = WHITE
  /\ board = last.board


====
